---- MODULE Spec2Model ----
(***************************************************************************)
(* A model of siasync (MSevey/siasync): the SiaFolder that mirrors a local *)
(* directory tree into the staging directory of a Sia renter, its startup  *)
(* reconciliation (NewSiafolder), its fsnotify event loop (eventWatcher)   *)
(* and the loop that renames healthy staging directories to production     *)
(* (moveToProductionLoop).                                                 *)
(*                                                                         *)
(* Paths are sequences of path components; an absolute local path starts   *)
(* with the component "/".  The renter (siad) and the local file system    *)
(* are the environment: every remote call may fail, and files are created, *)
(* written and removed at any time.                                        *)
(***************************************************************************)
EXTENDS Integers, Sequences, FiniteSets, TLC

\* ------------------------------------------------------------------ bounds

\* Capacity of the queue of file system events that are not handled yet.
MaxEvents == 1
\* How many times the program is started.
MaxRuns == 2

\* ------------------------------------------------------- program constants

\* main.go: const archive = true
archiveConst == TRUE
\* main.go: movieDir, tvDir
movieDir == <<"movies">>
tvDir == <<"tv">>
\* main.go: defaults of the flags -siaStagingDir and -siaProdDir
siaStagingDir == <<"fuse", "staging">>
siaProdDir == <<"fuse", "prod">>
\* moveToProductionLoop: `dir.AggregateMinRedundancy <= 1`
RedundancyThreshold == 1

\* ------------------------------------------------------------- the universe

\* The working directory of the process and the synchronized directory.
Cwd == <<"/">>
RootAbs == <<"/", "sync">>
\* The directory argument of the program: absolute, or relative to Cwd.
ArgPaths == {<<"/", "sync">>, <<"sync">>}

FileA == RootAbs \o <<"a.txt">>
DirSub == RootAbs \o <<"sub">>
FileB == DirSub \o <<"b.txt">>
LocalFiles == {FileA, FileB}
LocalDirs == {DirSub}
LocalPaths == LocalFiles \cup LocalDirs

\* File contents: byte sequences.  <<1>> and <<2>> differ and have one size.
Contents == {<< >>, <<1>>, <<2>>}

\* What the renter reports as a directory's AggregateMinRedundancy.
Redundancies == {1, 2}

\* The op bits of an fsnotify event.
Ops == {"Create", "Write", "Remove"}

NoEntry == [kind |-> "none", data |-> << >>]
DirEntry == [kind |-> "dir", data |-> << >>]
FileEntry(c) == [kind |-> "file", data |-> c]

\* --------------------------------------------------------------- Go helpers

\* m[k] = v and delete(m, k) on a Go map, as a function.
Put(m, k, v) == [x \in DOMAIN m \cup {k} |-> IF x = k THEN v ELSE m[x]]
Del(m, k) == [x \in DOMAIN m \ {k} |-> m[x]]
EmptyMap == [x \in {} |-> << >>]

\* strings.HasPrefix(p, d) and strings.HasPrefix(p, d + "/") on clean paths.
HasPrefix(p, d) == Len(p) >= Len(d) /\ SubSeq(p, 1, Len(d)) = d
HasDirPrefix(p, d) == Len(p) > Len(d) /\ SubSeq(p, 1, Len(d)) = d
TrimPrefix(p, d) == IF HasPrefix(p, d) THEN SubSeq(p, Len(d) + 1, Len(p)) ELSE p

\* filepath.Join, filepath.Abs and filepath.Rel on clean paths.
Join(a, b) == a \o b
Abs(p) == IF p # << >> /\ p[1] = "/" THEN p ELSE Join(Cwd, p)
CommonLen(a, b) ==
    CHOOSE n \in 0..Len(a) :
        /\ n <= Len(b)
        /\ SubSeq(a, 1, n) = SubSeq(b, 1, n)
        /\ \A m \in (n + 1)..Len(a) : m > Len(b) \/ SubSeq(a, 1, m) # SubSeq(b, 1, m)
Rel(base, targ) ==
    LET n == CommonLen(base, targ)
        up == [i \in 1..(Len(base) - n) |-> ".."]
        r == up \o SubSeq(targ, n + 1, Len(targ))
    IN  IF r = << >> THEN <<".">> ELSE r

\* strconv.FormatInt(n, 10) for n >= 0: the decimal digits, one per element.
Digits == <<"0", "1", "2", "3", "4", "5", "6", "7", "8", "9">>
RECURSIVE FormatInt(_)
FormatInt(n) ==
    IF n < 10 THEN <<Digits[n + 1]>>
    ELSE FormatInt(n \div 10) \o <<Digits[(n % 10) + 1]>>

\* utils.go
newSiaPath(path) == path
\* A getSiaPath that forgets the staging directory.
getSiaPath_Bare(relpath) == newSiaPath(relpath)
getSiaPath(relpath) == newSiaPath(Join(siaStagingDir, relpath))

VARIABLES
    archive,    \* the archive constant the binary was built with
    dryRun,     \* the -dry-run flag
    argPath,    \* the directory argument given to NewSiafolder
    run,        \* how many times the program was started
    fs,         \* the local tree: LocalPaths -> entry
    remote,     \* the renter's files: SiaPath -> Filesize
    phase,      \* "new", "running" (NewSiafolder returned sf), "failed"
    files,      \* sf.files
    dirs,       \* sf.dirs
    watched,    \* the directories added to sf.watcher
    events,     \* fsnotify events not yet received by eventWatcher
    closed,     \* sf.closeChan is closed
    watcherClosed, \* sf.watcher.Close() has ended the watcher
    pc,         \* where NewSiafolder, and then eventWatcher, stands
    cur,        \* the local variables of NewSiafolder and eventWatcher
    calls,      \* the remote calls of NewSiafolder, then of the event in hand
    promoPC,    \* where moveToProductionLoop stands
    plist,      \* moveToProductionLoop: the Directories it was given last
    pidx,       \* moveToProductionLoop: the index of the rename it is at
    pcalls      \* the remote calls of moveToProductionLoop since its last timer

vars == <<archive, dryRun, argPath, run, fs, remote, phase, files, dirs,
          watched, events, closed, watcherClosed, pc, cur, calls,
          promoPC, plist, pidx, pcalls>>

\* What a process is started with, and the variables of moveToProductionLoop.
process == <<archive, dryRun, argPath, run>>
promo == <<promoPC, plist, pidx, pcalls>>

\* ------------------------------------------------------------ the environment

Parent(p) == SubSeq(p, 1, Len(p) - 1)

\* An fsnotify.Event; the zero Event has no name and no op bit.
Event(n, o) == [name |-> n, op |-> o]

\* filepath.Clean: the name of the zero Event, "", becomes ".".
Dot == <<".">>
Clean(name) == IF name = << >> THEN Dot ELSE name

\* os.Stat, os.Lstat; "." is the working directory.
Stat(p) ==
    IF p \in DOMAIN fs THEN fs[p]
    ELSE IF p = RootAbs \/ p = Cwd \/ p = Dot THEN DirEntry ELSE NoEntry

\* ioutil.ReadDir order: the names of a directory, sorted.
SortedPaths == <<FileA, DirSub, FileB>>
ReadDirNames(p) ==
    SelectSeq(SortedPaths, LAMBDA q : Parent(q) = p /\ Stat(q).kind # "none")

\* A remote call as the logs record it.
Call(o, p, t, k) == [op |-> o, path |-> p, to |-> t, ok |-> k]
NoCalls == << >>

\* client.RenterRenamePost moves everything below `from` to below `to`; it
\* fails when nothing is below `from` or something is at `to` already.
Renamed(r, from, to) ==
    LET np(p) == IF HasDirPrefix(p, from) THEN Join(to, TrimPrefix(p, from)) ELSE p
        src(q) == CHOOSE p \in DOMAIN r : np(p) = q
    IN  [q \in {np(p) : p \in DOMAIN r} |-> r[src(q)]]
CanRename(r, from, to) ==
    /\ \E p \in DOMAIN r : HasDirPrefix(p, from)
    /\ \A p \in DOMAIN r : ~HasPrefix(p, to)

\* The directories directly below siaPath that hold a file.
ChildDirs(r, siaPath) ==
    {SubSeq(p, 1, Len(siaPath) + 1) :
        p \in {q \in DOMAIN r : HasDirPrefix(q, siaPath) /\ Len(q) > Len(siaPath) + 1}}

\* The permutations of a set, as sequences (the order of a Go map range or
\* of a directory listing).
Perms(S) ==
    {s \in [1..Cardinality(S) -> S] : \A i, j \in DOMAIN s : i # j => s[i] # s[j]}

\* The answer of client.RenterGetDir: siaPath itself, then its sub
\* directories in the renter's order `kids`, each with redundancy red[i].
Directories(siaPath, kids, red) ==
    [i \in 1..(Len(kids) + 1) |->
        [SiaPath |-> IF i = 1 THEN siaPath ELSE kids[i - 1],
         AggregateMinRedundancy |-> red[i]]]

\* modules.SiaPath.Rebase
Rebase(sp, oldDir, newDir) ==
    IF ~HasPrefix(sp, oldDir) THEN [err |-> TRUE, path |-> << >>]
    ELSE [err |-> FALSE, path |-> Join(newDir, TrimPrefix(sp, oldDir))]

\* utils.go: sizeFile and checksumFile
sizeFile(path) ==
    IF Stat(path).kind = "none" THEN [err |-> TRUE, sum |-> << >>]
    ELSE [err |-> FALSE, sum |-> FormatInt(Len(Stat(path).data))]
checksumFile(path) == sizeFile(path)

\* ------------------------------------------------------------- siafolder.go

\* sf.path: NewSiafolder stores filepath.Abs(path).
sfPath == Abs(argPath)

\* getSiaFiles, getStagingSiaFiles: the files of the renter's listing r that
\* pass the filter, with their sizes.
\* A getSiaFiles whose filter joins its two tests with `&&`.
getSiaFiles_Both(r) ==
    LET kept == {p \in DOMAIN r :
                    LET staging == ~HasDirPrefix(p, siaStagingDir)
                        production == ~HasDirPrefix(p, siaProdDir)
                    IN  staging /\ production}
    IN  [p \in kept |-> r[p]]
getSiaFiles(r) ==
    LET kept == {p \in DOMAIN r :
                    LET staging == ~HasDirPrefix(p, siaStagingDir)
                        production == ~HasDirPrefix(p, siaProdDir)
                    IN  staging \/ production}
    IN  [p \in kept |-> r[p]]
getStagingSiaFiles(r) ==
    LET kept == {p \in DOMAIN r :
                    LET staging == ~HasDirPrefix(p, siaStagingDir) IN staging}
    IN  [p \in kept |-> r[p]]

\* The local variables of the goroutine that owns sf.files: the handler it
\* is in (ctx), the file and the op bits of the event it handles, the
\* checksum sf.files held for the file when the handling began (<< >> when
\* none), and, in NewSiafolder, the paths the walk has still to visit, the
\* directory whose visit is under way (<< >> when none) with the names that
\* were read in it, the files a range has still to visit and renterFiles,
\* the listing that the range compares with.  fnFirst is the order of
\* filepath.Walk in the Go release the binary was built with: older
\* releases call walkFn on a directory before they read its names, current
\* ones after.
NoCur ==
    [ctx |-> "none", name |-> << >>, evop |-> {}, old |-> << >>,
     walk |-> << >>, fnFirst |-> FALSE, dir |-> << >>, names |-> << >>,
     todo |-> << >>, listing |-> EmptyMap]
OldOf(f, name) == IF name \in DOMAIN f THEN <<f[name]>> ELSE << >>

\* The goroutine's own state between two of its steps.
Thread(p, c, f) == [pc |-> p, cur |-> c, files |-> f]

\* handleCreate begins: its first step is the upload, or in a dry run the
\* checksum.
startCreate(t, ctx) ==
    [t EXCEPT !.pc = IF dryRun THEN "createsum" ELSE "upload", !.cur.ctx = ctx]

\* NewSiafolder returns the error of a handler.
failed(t) == [t EXCEPT !.pc = "failed", !.cur = NoCur]

\* The range of uploadChanged goes on: the next file whose staging path is
\* in the listing gets the renter's size as its checksum and handleFileWrite;
\* after the last one NewSiafolder starts the goroutines and returns.
nextChanged(t) ==
    LET found(file) == getSiaPath(Rel(sfPath, file)) \in DOMAIN t.cur.listing
        rest == SelectSeq(t.cur.todo, found)
        file == Head(rest)
        size == t.cur.listing[getSiaPath(Rel(sfPath, file))]
    IN  IF rest = << >> THEN [t EXCEPT !.pc = "idle", !.cur = NoCur]
        ELSE [t EXCEPT !.pc = "writesum",
                       !.cur.ctx = "changed",
                       !.cur.name = file,
                       !.cur.todo = Tail(rest),
                       !.files = Put(@, file, FormatInt(size))]

\* The range of uploadNonExisting goes on: handleCreate for the next file
\* whose staging path the listing lacks; after the last one uploadChanged.
nextNonExisting(t) ==
    LET missing(file) == getSiaPath(Rel(sfPath, file)) \notin DOMAIN t.cur.listing
        rest == SelectSeq(t.cur.todo, missing)
    IN  IF rest = << >>
        THEN [t EXCEPT !.pc = "list2", !.cur = [NoCur EXCEPT !.listing = t.cur.listing]]
        ELSE startCreate([t EXCEPT !.cur.name = Head(rest), !.cur.todo = Tail(rest)],
                         "nonexisting")

\* handleCreate or handleFileWrite returns err to its caller: the ranges of
\* NewSiafolder return it; eventWatcher logs it and goes on to uploadRetry
\* when the event has the Create bit too; uploadRetry asks isFile.
returned(t, err) ==
    CASE t.cur.ctx = "nonexisting" -> IF err THEN failed(t) ELSE nextNonExisting(t)
      [] t.cur.ctx = "changed" -> IF err THEN failed(t) ELSE nextChanged(t)
      [] t.cur.ctx = "write" /\ "Create" \in t.cur.evop -> startCreate(t, "create")
      [] t.cur.ctx = "create" /\ err -> [t EXCEPT !.pc = "isfile"]
      [] OTHER -> [t EXCEPT !.pc = "idle"]

\* handleRemove returned err: handleFileWrite returns an error and else goes
\* on to handleCreate; uploadRetry logs it and goes on to handleCreate.
afterRemove(t, err) ==
    IF t.cur.ctx = "create" THEN startCreate(t, "retry")
    ELSE IF err THEN returned(t, TRUE)
    ELSE startCreate(t, t.cur.ctx)

\* handleRemove begins: its step is the delete; a dry run has no call and
\* drops the entry at once.
startRemove(t) ==
    IF dryRun THEN afterRemove([t EXCEPT !.files = Del(@, t.cur.name)], FALSE)
    ELSE [t EXCEPT !.pc = "delete"]

\* The goroutine goes on from t; NewSiafolder starts the two goroutines when
\* it returns its SiaFolder.
Resume(t) ==
    /\ pc' = t.pc
    /\ cur' = t.cur
    /\ files' = t.files
    /\ phase' = IF t.pc = "failed" THEN "failed"
                ELSE IF phase = "new" /\ t.pc = "idle" THEN "running"
                ELSE phase
    /\ promoPC' = IF phase = "new" /\ t.pc = "idle" THEN "wait" ELSE promoPC
    /\ UNCHANGED <<plist, pidx, pcalls>>

Me == Thread(pc, cur, files)

\* NewSiafolder up to the walk: filepath.Abs, fsnotify.NewWatcher and
\* watcher.Add(abspath), each of which may fail.
NewSiafolder ==
    /\ pc = "new"
    /\ \E ok \in BOOLEAN, first \in BOOLEAN :
        IF ok
        THEN /\ watched' = {Abs(argPath)}
             /\ Resume([Me EXCEPT !.pc = "walk",
                                  !.cur.walk = <<Abs(argPath)>>,
                                  !.cur.fnFirst = first])
        ELSE /\ UNCHANGED watched
             /\ Resume(failed(Me))
    /\ UNCHANGED <<process, fs, remote, dirs, events, closed, watcherClosed, calls>>

\* The function literal of NewSiafolder, called on a directory: the
\* directory is added to the watcher and to sf.dirs, unless it is the path
\* the program was given.
walkFnDir(walkpath) ==
    IF walkpath = argPath THEN UNCHANGED <<watched, dirs>>
    ELSE /\ watched' = watched \cup {walkpath}
         /\ dirs' = Put(dirs, walkpath, FALSE)

\* A visit of filepath.Walk is through: the walk goes on with the paths in
\* rest; after the last one NewSiafolder goes on to uploadNonExisting.
visited(t, rest) ==
    IF rest = << >> THEN [t EXCEPT !.pc = "list1", !.cur = NoCur]
    ELSE [t EXCEPT !.cur.walk = rest, !.cur.dir = << >>, !.cur.names = << >>]

\* A visit of filepath.Walk begins: lstat the path.  The function literal
\* gets a lstat error, which it returns, or a file, whose checksum it
\* records.  On a directory the visit does the first of its two system
\* calls: the function literal's watcher.Add, or the reading of the names.
Walk ==
    /\ pc = "walk"
    /\ cur.dir = << >>
    /\ LET walkpath == Head(cur.walk)
           f == Stat(walkpath)
           checksum == checksumFile(walkpath)
       IN  IF f.kind = "none"
           THEN /\ Resume(failed(Me))
                /\ UNCHANGED <<watched, dirs>>
           ELSE IF f.kind = "dir"
           THEN IF cur.fnFirst
                THEN /\ walkFnDir(walkpath)
                     /\ Resume([Me EXCEPT !.cur.dir = walkpath])
                ELSE /\ UNCHANGED <<watched, dirs>>
                     /\ Resume([Me EXCEPT !.cur.dir = walkpath,
                                          !.cur.names = ReadDirNames(walkpath)])
           ELSE /\ UNCHANGED <<watched, dirs>>
                /\ Resume(IF walkpath = argPath THEN visited(Me, Tail(cur.walk))
                          ELSE IF checksum.err THEN failed(Me)
                          ELSE [visited(Me, Tail(cur.walk))
                                    EXCEPT !.files = Put(@, walkpath, checksum.sum)])
    /\ UNCHANGED <<process, fs, remote, events, closed, watcherClosed, calls>>

\* The visit of a directory ends with the other system call: the reading of
\* the names when the function literal was called first, else the function
\* literal's watcher.Add; the walk goes on with the names that were read.
WalkDir ==
    /\ pc = "walk"
    /\ cur.dir # << >>
    /\ IF cur.fnFirst
       THEN /\ UNCHANGED <<watched, dirs>>
            /\ Resume(visited(Me, ReadDirNames(cur.dir) \o Tail(cur.walk)))
       ELSE /\ walkFnDir(cur.dir)
            /\ Resume(visited(Me, cur.names \o Tail(cur.walk)))
    /\ UNCHANGED <<process, fs, remote, events, closed, watcherClosed, calls>>

\* uploadNonExisting: getSiaFiles, then the range over sf.files up to its
\* first handleCreate.
uploadNonExisting ==
    /\ pc = "list1"
    /\ \E ok \in BOOLEAN, order \in Perms(DOMAIN files) :
        /\ calls' = Append(calls, Call("list", << >>, << >>, ok))
        /\ IF ok
           THEN Resume(nextNonExisting([Me EXCEPT !.cur.todo = order,
                                                  !.cur.listing = getSiaFiles(remote)]))
           ELSE Resume(failed(Me))
    /\ UNCHANGED <<process, fs, remote, dirs, watched, events, closed, watcherClosed>>

\* A NewSiafolder that does not check the error of uploadChanged.
uploadChanged_Unchecked ==
    /\ pc = "list2"
    /\ \E ok \in BOOLEAN, order \in Perms(DOMAIN files) :
        /\ calls' = Append(calls, Call("list", << >>, << >>, ok))
        /\ Resume(nextChanged([Me EXCEPT !.cur.todo = order,
                                         !.cur.listing = getStagingSiaFiles(remote)]))
    /\ UNCHANGED <<process, fs, remote, dirs, watched, events, closed, watcherClosed>>

\* uploadChanged: getStagingSiaFiles, then the range over sf.files up to its
\* first handleFileWrite.
uploadChanged ==
    /\ pc = "list2"
    /\ \E ok \in BOOLEAN, order \in Perms(DOMAIN files) :
        /\ calls' = Append(calls, Call("list", << >>, << >>, ok))
        /\ IF ok
           THEN Resume(nextChanged([Me EXCEPT !.cur.todo = order,
                                              !.cur.listing = getStagingSiaFiles(remote)]))
           ELSE Resume(failed(Me))
    /\ UNCHANGED <<process, fs, remote, dirs, watched, events, closed, watcherClosed>>

\* handleCreate, the upload: client.RenterUploadPost of the file to its
\* staging path; the renter fails it when the source is no file on disk.
handleCreateUpload ==
    /\ pc = "upload"
    /\ LET file == cur.name
           abspath == Abs(file)
           relpath == Rel(sfPath, file)
       IN  \E answer \in BOOLEAN :
            LET ok == answer /\ Stat(abspath).kind = "file"
            IN  /\ calls' = Append(calls, Call("upload", getSiaPath(relpath), << >>, ok))
                /\ remote' = IF ok THEN Put(remote, getSiaPath(relpath), Len(Stat(abspath).data))
                             ELSE remote
                /\ Resume(IF ok THEN [Me EXCEPT !.pc = "createsum"] ELSE returned(Me, TRUE))
    /\ UNCHANGED <<process, fs, dirs, watched, events, closed, watcherClosed>>

\* A handleCreate that does not record the checksum.
handleCreateChecksum_NoRecord ==
    /\ pc = "createsum"
    /\ LET file == cur.name
           checksum == checksumFile(file)
       IN  IF checksum.err THEN Resume(returned(Me, TRUE))
           ELSE Resume(returned(Me, FALSE))
    /\ UNCHANGED <<process, fs, remote, dirs, watched, events, closed, watcherClosed, calls>>

\* handleCreate, after the upload: checksumFile and sf.files[file] = checksum.
handleCreateChecksum ==
    /\ pc = "createsum"
    /\ LET file == cur.name
           checksum == checksumFile(file)
       IN  IF checksum.err THEN Resume(returned(Me, TRUE))
           ELSE Resume(returned([Me EXCEPT !.files = Put(@, file, checksum.sum)], FALSE))
    /\ UNCHANGED <<process, fs, remote, dirs, watched, events, closed, watcherClosed, calls>>

\* A handleFileWrite that removes the file from the renter when archive is
\* set.
handleFileWrite_Inverted ==
    /\ pc = "writesum"
    /\ LET file == cur.name
           checksum == checksumFile(file)
           exists == file \in DOMAIN files
           t == [Me EXCEPT !.files = Put(@, file, checksum.sum)]
       IN  IF checksum.err THEN Resume(returned(Me, TRUE))
           ELSE IF exists /\ files[file] # checksum.sum
           THEN Resume(IF archive THEN startRemove(t) ELSE startCreate(t, cur.ctx))
           ELSE Resume(returned(Me, FALSE))
    /\ UNCHANGED <<process, fs, remote, dirs, watched, events, closed, watcherClosed, calls>>

\* A handleFileWrite that re-uploads an indexed file whatever its checksum.
handleFileWrite_Always ==
    /\ pc = "writesum"
    /\ LET file == cur.name
           checksum == checksumFile(file)
           exists == file \in DOMAIN files
           t == [Me EXCEPT !.files = Put(@, file, checksum.sum)]
       IN  IF checksum.err THEN Resume(returned(Me, TRUE))
           ELSE IF exists
           THEN Resume(IF ~archive THEN startRemove(t) ELSE startCreate(t, cur.ctx))
           ELSE Resume(returned(Me, FALSE))
    /\ UNCHANGED <<process, fs, remote, dirs, watched, events, closed, watcherClosed, calls>>

\* handleFileWrite up to its first call: checksumFile, the comparison with
\* the recorded checksum and sf.files[file] = checksum.
handleFileWrite ==
    /\ pc = "writesum"
    /\ LET file == cur.name
           checksum == checksumFile(file)
           exists == file \in DOMAIN files
           t == [Me EXCEPT !.files = Put(@, file, checksum.sum)]
       IN  IF checksum.err THEN Resume(returned(Me, TRUE))
           ELSE IF exists /\ files[file] # checksum.sum
           THEN Resume(IF ~archive THEN startRemove(t) ELSE startCreate(t, cur.ctx))
           ELSE Resume(returned(Me, FALSE))
    /\ UNCHANGED <<process, fs, remote, dirs, watched, events, closed, watcherClosed, calls>>

\* A handleRemove that drops the entry also when the delete failed.
handleRemove_Always ==
    /\ pc = "delete"
    /\ LET file == cur.name
           relpath == Rel(sfPath, file)
       IN  \E answer \in BOOLEAN :
            LET ok == answer /\ getSiaPath(relpath) \in DOMAIN remote
            IN  /\ calls' = Append(calls, Call("delete", getSiaPath(relpath), << >>, ok))
                /\ remote' = IF ok THEN Del(remote, getSiaPath(relpath)) ELSE remote
                /\ Resume(afterRemove([Me EXCEPT !.files = Del(@, file)], ~ok))
    /\ UNCHANGED <<process, fs, dirs, watched, events, closed, watcherClosed>>

\* handleRemove, the delete: client.RenterDeletePost of the staging path,
\* which the renter fails when it has no such file, then delete(sf.files).
handleRemove ==
    /\ pc = "delete"
    /\ LET file == cur.name
           relpath == Rel(sfPath, file)
       IN  \E answer \in BOOLEAN :
            LET ok == answer /\ getSiaPath(relpath) \in DOMAIN remote
            IN  /\ calls' = Append(calls, Call("delete", getSiaPath(relpath), << >>, ok))
                /\ remote' = IF ok THEN Del(remote, getSiaPath(relpath)) ELSE remote
                /\ Resume(IF ok THEN afterRemove([Me EXCEPT !.files = Del(@, file)], FALSE)
                          ELSE afterRemove(Me, TRUE))
    /\ UNCHANGED <<process, fs, dirs, watched, events, closed, watcherClosed>>

\* An uploadRetry that deletes a known file also in archive mode.
isFile_Delete ==
    /\ pc = "isfile"
    /\ LET file == cur.name
           relpath == Rel(sfPath, file)
       IN  \E answer \in BOOLEAN :
            LET known == newSiaPath(relpath) \in DOMAIN remote
                exists == ~(answer /\ ~known)
            IN  /\ calls' = Append(calls, Call("fileget", newSiaPath(relpath), << >>,
                                               answer /\ known))
                /\ Resume(IF exists THEN startRemove(Me)
                          ELSE startCreate(Me, "retry"))
    /\ UNCHANGED <<process, fs, remote, dirs, watched, events, closed, watcherClosed>>

\* isFile, in uploadRetry after a failed handleCreate: client.RenterFileGet;
\* any error other than "no file known" counts as a known file.
isFile ==
    /\ pc = "isfile"
    /\ LET file == cur.name
           relpath == Rel(sfPath, file)
       IN  \E answer \in BOOLEAN :
            LET known == newSiaPath(relpath) \in DOMAIN remote
                exists == ~(answer /\ ~known)
            IN  /\ calls' = Append(calls, Call("fileget", newSiaPath(relpath), << >>,
                                               answer /\ known))
                /\ Resume(IF exists /\ ~archive THEN startRemove(Me)
                          ELSE startCreate(Me, "retry"))
    /\ UNCHANGED <<process, fs, remote, dirs, watched, events, closed, watcherClosed>>

\* eventWatcher's select receives from watcher.Events (also when closeChan
\* is closed: select picks among the ready cases).  Once the watcher is
\* closed its channel is, and the receive yields the zero Event, whose path
\* is ".".
eventWatcher ==
    /\ pc = "idle"
    /\ events # << >> \/ watcherClosed
    /\ LET event == IF events # << >> THEN Head(events) ELSE Event(<< >>, {})
           filename == Clean(event.name)
       IN  /\ events' = IF events # << >> THEN Tail(events) ELSE events
           /\ calls' = NoCalls
           /\ Resume([Me EXCEPT !.pc = "stat",
                                !.cur = [NoCur EXCEPT !.name = filename,
                                                      !.evop = event.op,
                                                      !.old = OldOf(files, filename)]])
    /\ UNCHANGED <<process, fs, remote, dirs, watched, closed, watcherClosed>>

\* eventWatcher stats the path of the event: a directory is to be added to
\* the watcher; else a Write event goes to handleFileWrite and a Create
\* event to uploadRetry.
eventWatcherStat ==
    /\ pc = "stat"
    /\ LET f == Stat(cur.name)
       IN  Resume(IF f.kind = "dir" THEN [Me EXCEPT !.pc = "watch"]
                  ELSE IF "Write" \in cur.evop
                  THEN [Me EXCEPT !.pc = "writesum", !.cur.ctx = "write"]
                  ELSE IF "Create" \in cur.evop
                  THEN startCreate(Me, "create")
                  ELSE [Me EXCEPT !.pc = "idle"])
    /\ UNCHANGED <<process, fs, remote, dirs, watched, events, closed, watcherClosed,
                   calls>>

\* An eventWatcher that registers a new directory without watching it.
eventWatcherAdd_NoWatch ==
    /\ pc = "watch"
    /\ dirs' = IF cur.name \in DOMAIN dirs THEN dirs ELSE Put(dirs, cur.name, FALSE)
    /\ Resume([Me EXCEPT !.pc = "idle"])
    /\ UNCHANGED <<process, fs, remote, watched, events, closed, watcherClosed, calls>>

\* eventWatcher on a directory: sf.watcher.Add, which fails on a closed
\* watcher and whose error is not looked at, and the entry of sf.dirs.
eventWatcherAdd ==
    /\ pc = "watch"
    /\ watched' = IF watcherClosed THEN watched ELSE watched \cup {cur.name}
    /\ dirs' = IF cur.name \in DOMAIN dirs THEN dirs ELSE Put(dirs, cur.name, FALSE)
    /\ Resume([Me EXCEPT !.pc = "idle"])
    /\ UNCHANGED <<process, fs, remote, events, closed, watcherClosed, calls>>

\* An eventWatcher that returns without looking at closeChan.
eventWatcherReturn_Early ==
    /\ pc = "idle"
    /\ Resume([Me EXCEPT !.pc = "done"])
    /\ UNCHANGED <<process, fs, remote, dirs, watched, events, closed, watcherClosed, calls>>

\* eventWatcher's select takes `<-sf.closeChan` and returns.
eventWatcherReturn ==
    /\ pc = "idle"
    /\ closed
    /\ Resume([Me EXCEPT !.pc = "done"])
    /\ UNCHANGED <<process, fs, remote, dirs, watched, events, closed, watcherClosed, calls>>

\* getStagingSiaDir(subdir) asks the renter for this directory.
StagingSiaDirPath(subdir) == getSiaPath(Join(siaStagingDir, movieDir))

\* A range that also moves a directory at the threshold (`< 1`).
nextMove_AtThreshold(directories, i) ==
    LET moves == {j \in i..Len(directories) :
                    /\ j # 1
                    /\ ~(directories[j].AggregateMinRedundancy < RedundancyThreshold)}
    IN  IF moves = {} THEN 0 ELSE CHOOSE j \in moves : \A k \in moves : j <= k

\* The range over Directories goes on from index i: the index of the next
\* entry to move, 0 when there is none.
nextMove(directories, i) ==
    LET moves == {j \in i..Len(directories) :
                    /\ j # 1
                    /\ ~(directories[j].AggregateMinRedundancy <= RedundancyThreshold)}
    IN  IF moves = {} THEN 0 ELSE CHOOSE j \in moves : \A k \in moves : j <= k

\* moveToProductionLoop's select takes `<-time.After(5 * time.Second)`.
timerFires ==
    /\ promoPC = "wait"
    /\ ~closed
    /\ promoPC' = "movies"
    /\ plist' = << >>
    /\ pcalls' = NoCalls
    /\ UNCHANGED <<process, fs, remote, phase, files, dirs, watched, events, closed, watcherClosed,
                   pc, cur, calls, pidx>>

\* getStagingSiaDir in one half of a tick, and the range over the answer up
\* to its first moveToProduction; a failed fetch ends the tick (`continue`).
getStagingSiaDir(subdir, here, loop, next) ==
    /\ promoPC = here
    /\ LET siaPath == StagingSiaDirPath(subdir)
       IN  \E ok \in BOOLEAN :
           \E kids \in Perms(ChildDirs(remote, siaPath)) :
           \E red \in [1..(Len(kids) + 1) -> Redundancies] :
            LET directories == Directories(siaPath, kids, red)
                i == nextMove(directories, 1)
            IN  /\ pcalls' = Append(pcalls, Call("getdir", siaPath, << >>, ok))
                /\ IF ~ok
                   THEN promoPC' = "wait" /\ plist' = << >> /\ pidx' = 0
                   ELSE /\ plist' = directories
                        /\ pidx' = i
                        /\ promoPC' = IF i = 0 THEN next ELSE loop
    /\ UNCHANGED <<process, fs, remote, phase, files, dirs, watched, events, closed, watcherClosed,
                   pc, cur, calls>>

checkMovies == getStagingSiaDir(movieDir, "movies", "moviesloop", "tv")
checkTV == getStagingSiaDir(tvDir, "tv", "tvloop", "wait")

\* A moveToProduction after which the range gives up when the rename failed.
moveToProduction_StopOnError ==
    /\ promoPC \in {"moviesloop", "tvloop"}
    /\ LET dir == plist[pidx].SiaPath
           rebased == Rebase(dir, getSiaPath(siaStagingDir), getSiaPath(siaProdDir))
       IN  \E answer \in BOOLEAN :
            LET ok == ~rebased.err /\ answer /\ CanRename(remote, dir, rebased.path)
                i == IF ok THEN nextMove(plist, pidx + 1) ELSE 0
            IN  /\ pcalls' = Append(pcalls, Call("rename", dir, rebased.path, ok))
                /\ remote' = IF ok THEN Renamed(remote, dir, rebased.path) ELSE remote
                /\ pidx' = i
                /\ promoPC' = IF i # 0 THEN promoPC
                              ELSE IF promoPC = "moviesloop" THEN "tv" ELSE "wait"
    /\ UNCHANGED <<process, fs, phase, files, dirs, watched, events, closed, watcherClosed,
                   pc, cur, calls, plist>>

\* A moveToProduction that also clears sf.files.
moveToProduction_Unindex ==
    /\ promoPC \in {"moviesloop", "tvloop"}
    /\ LET dir == plist[pidx].SiaPath
           rebased == Rebase(dir, getSiaPath(siaStagingDir), getSiaPath(siaProdDir))
           i == nextMove(plist, pidx + 1)
       IN  /\ IF rebased.err THEN UNCHANGED <<remote, pcalls>>
              ELSE \E answer \in BOOLEAN :
                    LET ok == answer /\ CanRename(remote, dir, rebased.path)
                    IN  /\ pcalls' = Append(pcalls, Call("rename", dir, rebased.path, ok))
                        /\ remote' = IF ok THEN Renamed(remote, dir, rebased.path)
                                     ELSE remote
           /\ pidx' = i
           /\ promoPC' = IF i # 0 THEN promoPC
                         ELSE IF promoPC = "moviesloop" THEN "tv" ELSE "wait"
    /\ files' = EmptyMap
    /\ UNCHANGED <<process, fs, phase, dirs, watched, events, closed, watcherClosed,
                   pc, cur, calls, plist>>

\* moveToProduction of the entry the range is at: Rebase, then
\* client.RenterRenamePost; then the range goes on to its next move.
moveToProduction ==
    /\ promoPC \in {"moviesloop", "tvloop"}
    /\ LET dir == plist[pidx].SiaPath
           rebased == Rebase(dir, getSiaPath(siaStagingDir), getSiaPath(siaProdDir))
           i == nextMove(plist, pidx + 1)
       IN  /\ IF rebased.err THEN UNCHANGED <<remote, pcalls>>
              ELSE \E answer \in BOOLEAN :
                    LET ok == answer /\ CanRename(remote, dir, rebased.path)
                    IN  /\ pcalls' = Append(pcalls, Call("rename", dir, rebased.path, ok))
                        /\ remote' = IF ok THEN Renamed(remote, dir, rebased.path)
                                     ELSE remote
           /\ pidx' = i
           /\ promoPC' = IF i # 0 THEN promoPC
                         ELSE IF promoPC = "moviesloop" THEN "tv" ELSE "wait"
    /\ UNCHANGED <<process, fs, phase, files, dirs, watched, events, closed, watcherClosed,
                   pc, cur, calls, plist>>

\* moveToProductionLoop's select takes `<-sf.closeChan` and returns.
moveToProductionLoopReturn ==
    /\ promoPC = "wait"
    /\ closed
    /\ promoPC' = "done"
    /\ UNCHANGED <<process, fs, remote, phase, files, dirs, watched, events, closed, watcherClosed,
                   pc, cur, calls, plist, pidx, pcalls>>

\* Close begins: close(sf.closeChan).
Close ==
    /\ phase = "running"
    /\ ~closed
    /\ closed' = TRUE
    /\ UNCHANGED <<process, fs, remote, phase, files, dirs, watched, events,
                   watcherClosed, pc, cur, calls, promo>>

\* Close goes on: sf.watcher.Close() ends the watcher.  Its watches are
\* gone, the events it has not passed on are lost and its channels closed.
watcherClose ==
    /\ closed
    /\ ~watcherClosed
    /\ watcherClosed' = TRUE
    /\ watched' = {}
    /\ events' = << >>
    /\ UNCHANGED <<process, fs, remote, phase, files, dirs, closed,
                   pc, cur, calls, promo>>

\* The process has ended and main starts the program again, with the same
\* flags and argument, on the tree and the renter as they are.
Restart ==
    /\ phase = "running"
    /\ pc = "idle"
    /\ run < MaxRuns
    /\ run' = run + 1
    /\ phase' = "new"
    /\ pc' = "new"
    /\ cur' = NoCur
    /\ files' = EmptyMap
    /\ dirs' = EmptyMap
    /\ watched' = {}
    /\ events' = << >>
    /\ closed' = FALSE
    /\ calls' = NoCalls
    /\ promoPC' = "off"
    /\ plist' = << >>
    /\ pidx' = 0
    /\ pcalls' = NoCalls
    /\ watcherClosed' = FALSE
    /\ UNCHANGED <<archive, dryRun, argPath, fs, remote>>

\* ----------------------------------------------------------- local changes

\* inotify reports a change of `name` when its directory is watched.
Notifies(name) == Parent(name) \in watched /\ ~watcherClosed

\* The tree changes while the program runs, from NewSiafolder's first step on.
LocalChange(name, entry, op) ==
    /\ pc \notin {"new", "failed", "done"}
    /\ Stat(Parent(name)).kind = "dir"
    /\ Notifies(name) => Len(events) < MaxEvents
    /\ fs' = [fs EXCEPT ![name] = entry]
    /\ events' = IF Notifies(name) THEN Append(events, Event(name, {op})) ELSE events
    /\ UNCHANGED <<process, remote, phase, files, dirs, watched, closed, watcherClosed,
                   pc, cur, calls, promo>>

CreateFile ==
    \E p \in LocalFiles, data \in Contents :
        fs[p].kind = "none" /\ LocalChange(p, FileEntry(data), "Create")
WriteFile ==
    \E p \in LocalFiles, data \in Contents :
        fs[p].kind = "file" /\ fs[p].data # data /\ LocalChange(p, FileEntry(data), "Write")
RemoveFile ==
    \E p \in LocalFiles :
        fs[p].kind = "file" /\ LocalChange(p, NoEntry, "Remove")
Mkdir ==
    \E p \in LocalDirs :
        fs[p].kind = "none" /\ LocalChange(p, DirEntry, "Create")

\* ---------------------------------------------------------- specifications

Entries == {NoEntry, DirEntry} \cup {FileEntry(data) : data \in Contents}
InitTrees ==
    {t \in [LocalPaths -> Entries] :
        /\ \A p \in LocalFiles : t[p].kind # "dir"
        /\ \A p \in LocalDirs : t[p].kind # "file"
        /\ \A p \in LocalPaths :
            t[p].kind # "none" /\ Parent(p) # RootAbs => t[Parent(p)].kind = "dir"}

\* What the renter holds at startup: a.txt staged by an earlier run, or
\* sub/b.txt already moved to production; and, or not, movie and tv folders.
AsMap(paths, size) == [p \in paths |-> size]
SyncRemotes ==
    {AsMap({}, 0),
     AsMap({<<"fuse", "staging", "a.txt">>}, 1),
     AsMap({<<"fuse", "prod", "sub", "b.txt">>}, 1)}
MediaRemotes ==
    {AsMap({}, 0),
     AsMap({<<"fuse", "staging", "fuse", "staging", "movies", "m1", "f">>,
            <<"fuse", "staging", "fuse", "staging", "movies", "m2", "f">>,
            <<"fuse", "staging", "movies", "m1", "f">>,
            <<"fuse", "staging", "tv", "t1", "f">>}, 1)}

InitWith(builds, args, trees, remotes) ==
    /\ archive \in builds
    /\ dryRun \in BOOLEAN
    /\ argPath \in args
    /\ run = 1
    /\ fs \in trees
    /\ remote \in remotes
    /\ phase = "new"
    /\ files = EmptyMap
    /\ dirs = EmptyMap
    /\ watched = {}
    /\ events = << >>
    /\ closed = FALSE
    /\ watcherClosed = FALSE
    /\ pc = "new"
    /\ cur = NoCur
    /\ calls = NoCalls
    /\ promoPC = "off"
    /\ plist = << >>
    /\ pidx = 0
    /\ pcalls = NoCalls

NoMedia == {m \in MediaRemotes : DOMAIN m = {}}
Media == MediaRemotes \ NoMedia
Combined(as, bs) ==
    {[p \in DOMAIN a \cup DOMAIN b |-> IF p \in DOMAIN a THEN a[p] ELSE b[p]] :
        a \in as, b \in bs}
RelArg == {a \in ArgPaths : a # Abs(a)}

EmptyRenter == Combined({AsMap({}, 0)}, NoMedia)

\* The program as built, started on an empty renter.
Init == InitWith({archiveConst}, RelArg, InitTrees, EmptyRenter)


\* The steps of NewSiafolder and of the handleCreate it calls.
Startup ==
    \/ NewSiafolder
    \/ Walk
    \/ WalkDir
    \/ uploadNonExisting
    \/ uploadChanged
    \/ handleCreateUpload
    \/ handleCreateChecksum

\* The steps of eventWatcher while files are written and none is created.
Writing ==
    \/ eventWatcher
    \/ eventWatcherStat
    \/ handleFileWrite

\* The steps of eventWatcher in the program as built: archive is set, so
\* that handleRemove is never called.
Watching ==
    \/ Writing
    \/ eventWatcherAdd
    \/ isFile

\* The steps of moveToProductionLoop on a renter with no media folder, and
\* all its steps.
Ticks ==
    \/ timerFires
    \/ checkMovies
    \/ checkTV
Promotion ==
    \/ Ticks
    \/ moveToProduction

LocalChanges ==
    \/ CreateFile
    \/ WriteFile
    \/ RemoveFile
    \/ Mkdir

Next ==
    \/ Startup
    \/ Watching
    \/ eventWatcherReturn
    \/ Promotion
    \/ moveToProductionLoopReturn
    \/ Close
    \/ watcherClose
    \/ LocalChanges

Spec == Init /\ [][Next]_vars

\* Startup alone, from every tree and every renter state, on a tree that
\* does not change while NewSiafolder runs.
StartInit == InitWith({archiveConst}, ArgPaths, InitTrees, Combined(SyncRemotes, MediaRemotes))
StartSpec == StartInit /\ [][Startup]_vars

\* The same, and the program started once more after NewSiafolder returned.
RestartSpec == StartInit /\ [][Startup \/ Restart]_vars

\* The synchronization of local changes: startup, the event loop and the
\* local changes, while the promotion loop waits for its timer.
SyncInit == InitWith({archiveConst}, RelArg, InitTrees, Combined(SyncRemotes, NoMedia))
NextSync ==
    \/ Startup
    \/ Watching
    \/ LocalChanges
SyncSpec == SyncInit /\ [][NextSync]_vars

\* Startup, the event loop and Close while directories are created.
NextDirs ==
    \/ Startup
    \/ eventWatcher
    \/ eventWatcherStat
    \/ eventWatcherAdd
    \/ eventWatcherReturn
    \/ Close
    \/ watcherClose
    \/ Mkdir
DirsSpec == SyncInit /\ [][NextDirs]_vars

\* Files and directories created, and files removed, once NewSiafolder has
\* returned its SiaFolder.
LiveChanges == phase = "running" /\ (CreateFile \/ RemoveFile \/ Mkdir)

\* The synchronization of files created after startup in a tree that has no
\* subdirectory when the program starts, with an eventWatcher that keeps
\* running: it receives a queued event in the end, and a handler under way
\* goes on once its call returns.
NoSubTrees == {t \in InitTrees : t[DirSub].kind = "none"}
LiveInit == InitWith({archiveConst}, RelArg, NoSubTrees, EmptyRenter)
NextLive ==
    \/ Startup
    \/ eventWatcher
    \/ eventWatcherStat
    \/ eventWatcherAdd
    \/ isFile
    \/ LiveChanges
LiveSpec ==
    /\ LiveInit /\ [][NextLive]_vars
    /\ WF_vars(eventWatcher)
    /\ WF_vars(eventWatcherStat)
    /\ WF_vars(eventWatcherAdd)
    /\ WF_vars(handleCreateUpload)
    /\ WF_vars(handleCreateChecksum)
    /\ WF_vars(isFile)

\* The handlers of eventWatcher as they would run with the archive constant
\* of main.go set either way: sf.archive is true in the program as built,
\* and the other value reaches the code behind `!sf.archive`, which the
\* program as built never runs.
BuildSyncInit == InitWith(BOOLEAN, RelArg, InitTrees, EmptyRenter)
BuildSyncSpec == BuildSyncInit /\ [][NextSync \/ handleRemove]_vars

\* Startup and the event loop, for either value of the archive constant,
\* while files of the local tree are written.
BuildWriteSpec ==
    BuildSyncInit /\ [][Startup \/ Writing \/ handleRemove \/ WriteFile]_vars

\* The promotion of media folders: startup, moveToProductionLoop and Close,
\* on a local tree that does not change.
PromoInit == InitWith({archiveConst}, RelArg, InitTrees, Combined({AsMap({}, 0)}, Media))
NextPromo ==
    \/ Startup
    \/ Promotion
    \/ moveToProductionLoopReturn
    \/ Close
    \/ watcherClose
PromoSpec == PromoInit /\ [][NextPromo]_vars

\* Startup, both loops and Close, on a local tree whose files are written
\* and neither created nor removed.
NextLoops ==
    \/ Startup
    \/ Writing
    \/ eventWatcherAdd
    \/ eventWatcherReturn
    \/ Ticks
    \/ moveToProductionLoopReturn
    \/ Close
    \/ watcherClose
    \/ WriteFile
LoopsSpec == Init /\ [][NextLoops]_vars

\* Both loops and Close on a renter that holds media folders, while a.txt,
\* the one file of the local tree, is written.
FlatTrees == {t \in InitTrees : t[FileA].kind = "file" /\ t[DirSub].kind = "none"}
MediaLoopsInit == InitWith({archiveConst}, RelArg, FlatTrees, Combined({AsMap({}, 0)}, Media))
MediaLoopsSpec == MediaLoopsInit /\ [][NextLoops \/ moveToProduction]_vars

\* Startup, both loops and Close while a.txt, the one file of the local
\* tree, is written, with goroutines that keep running: a select that
\* finds its closeChan case ready every time it is reached takes it in the
\* end (select picks at random among the ready cases), and a handler or a
\* tick under way goes on once its call returns.
FlatInit == InitWith({archiveConst}, RelArg, FlatTrees, EmptyRenter)
FairSpec ==
    /\ FlatInit /\ [][NextLoops]_vars
    /\ WF_vars(eventWatcherStat)
    /\ WF_vars(eventWatcherAdd)
    /\ WF_vars(handleFileWrite)
    /\ WF_vars(handleCreateUpload)
    /\ WF_vars(handleCreateChecksum)
    /\ SF_vars(eventWatcherReturn)
    /\ WF_vars(checkMovies)
    /\ WF_vars(checkTV)
    /\ WF_vars(moveToProductionLoopReturn)
    /\ WF_vars(watcherClose)

\* ------------------------------------------------------------------ claims

IsMutation(call) == call.op \in {"upload", "delete", "rename"}
Mutations(cs) == SelectSeq(cs, IsMutation)
OpsOf(cs) == [i \in DOMAIN cs |-> cs[i].op]
AllOk == \A i \in DOMAIN calls : calls[i].ok
UploadsTo(cs, siaPath) ==
    {i \in DOMAIN cs : cs[i].op = "upload" /\ cs[i].path = siaPath}
\* staging/<path relative to the synchronized root>
StagingPathOf(file) == <<"fuse", "staging">> \o SubSeq(file, Len(RootAbs) + 1, Len(file))
\* The decimal size of the file on disk.
SizeSum(file) == FormatInt(Len(fs[file].data))
OnDisk == {p \in LocalFiles : fs[p].kind = "file"}
\* eventWatcher is back at its select and has handled every event.
Quiescent == phase = "running" /\ pc = "idle" /\ ~closed /\ events = << >>
\* eventWatcher is back at its select after an event with the op bit `op`
\* for the path of a file.
Handled(op) ==
    /\ pc = "idle"
    /\ op \in cur.evop
    /\ cur.name \in LocalFiles

\* The step is one of NewSiafolder or of eventWatcher.
Acts == <<pc, cur, calls>>' # <<pc, cur, calls>>

\* The create event of file p did not get it into sf.files for a reason the
\* claim allows: the file is gone again, or a call of the event failed.
CreateExcused(p) ==
    \/ fs[p].kind # "file"
    \/ cur.name = p /\ "Create" \in cur.evop /\ ~AllOk
Converges(p) == p \in DOMAIN files \/ CreateExcused(p)
\* A create event for file p is queued.
Pending(p) ==
    phase = "running" /\ \E i \in DOMAIN events : events[i] = Event(p, {"Create"})
\* File p has its entry, or is gone again.
Indexed(p) == p \in DOMAIN files \/ fs[p].kind # "file"

\* C1 as stated, outside dry runs: a file that is created after startup,
\* whatever directory it is created in, has an entry in sf.files in the end
\* (unless it is removed again or a call of its event fails); and when a
\* create event is handled and no call failed, the file has an entry and
\* exactly one upload was issued.
C1_Orig ==
    /\ \A p \in LocalFiles :
          []AllOk =>
            [](phase = "running" /\ ~dryRun /\ fs[p].kind = "none" =>
                [](fs[p].kind = "file" => <>Indexed(p)))
    /\ [](Handled("Create") /\ AllOk /\ ~dryRun =>
            /\ cur.name \in DOMAIN files
            /\ Len(SelectSeq(calls, LAMBDA x : x.op = "upload")) = 1)

\* C1 amended: a file created after startup in a directory that is watched
\* by then has an entry in sf.files in the end, unless it is removed again
\* or a call of its create event fails; when a create event is handled and
\* none of its calls failed, the file has its entry and the calls are one
\* upload to its staging path, none in a dry run; the entry handleCreate
\* records is the decimal size the file has when its checksum is taken,
\* after the upload.  A file created in a directory that is not watched
\* queues no event, and after startup a path enters sf.files only in the
\* handling of a create event for it.
C1_CreateIndexed ==
    /\ \A p \in LocalFiles :
          []AllOk =>
            [](phase = "running" /\ fs[p].kind = "none" /\ Parent(p) \in watched =>
                [](fs[p].kind = "file" => <>Indexed(p)))
    /\ \A p \in LocalFiles : Pending(p) ~> Converges(p)
    /\ [](Handled("Create") /\ AllOk =>
            /\ cur.name \in DOMAIN files
            /\ calls = IF dryRun THEN << >>
                       ELSE <<Call("upload", StagingPathOf(cur.name), << >>, TRUE)>>)
    /\ [][Acts /\ pc = "createsum" /\ fs[cur.name].kind = "file" =>
            /\ cur.name \in DOMAIN files'
            /\ files'[cur.name] = SizeSum(cur.name)]_vars
    /\ [][\A p \in LocalFiles :
            /\ fs[p].kind = "none" /\ fs'[p].kind = "file" /\ Parent(p) \notin watched
               => events' = events
            /\ phase = "running" /\ p \notin DOMAIN files /\ p \in DOMAIN files'
               => pc = "createsum" /\ cur.name = p /\ "Create" \in cur.evop]_vars
\* A file created in a subdirectory that was itself created after startup
\* is indexed after one upload.
C1_Witness ==
    /\ Handled("Create") /\ AllOk /\ ~dryRun
    /\ cur.name = FileB
    /\ DirSub \in watched /\ DirSub \in DOMAIN dirs
    /\ FileB \in DOMAIN files
    /\ files[FileB] = SizeSum(FileB)
    /\ calls = <<Call("upload", StagingPathOf(FileB), << >>, TRUE)>>

\* C2 as stated: once the events are handled, no removed file has an entry.
C2_Orig == Quiescent => \A p \in DOMAIN files : Stat(p).kind = "file"

\* C3 as stated, for the build with archive set: when a write event for an
\* indexed file is handled, the recorded checksum is a new one and the calls
\* are one upload of the staging path.  (Every write event stems from a
\* write that changed the content.)
C3_Orig ==
    archive /\ Handled("Write") /\ cur.old # << >> /\ fs[cur.name].kind = "file" =>
        /\ cur.name \in DOMAIN files
        /\ files[cur.name] # cur.old[1]
        /\ OpsOf(calls) = <<"upload">>
        /\ calls[1].path = StagingPathOf(cur.name)

\* C3 amended: handleFileWrite of a write event for an indexed file, when
\* the file's size is not the recorded checksum, records the new size and
\* goes on to the upload (archive), the delete (not archive) or, in a dry
\* run, to handleCreate's checksum with no call and, when not archive, the
\* entry dropped; when the file is gone or its size is as recorded, it
\* changes nothing and issues no call.  The calls of the whole event are
\* none in a dry run, at most one upload in archive mode, else at most one
\* delete and, only after it succeeded, one upload, all of the staging path.
C3_WriteDetected ==
    /\ [](Handled("Write") /\ cur.old # << >> =>
            /\ \A i \in DOMAIN calls : calls[i].path = StagingPathOf(cur.name)
            /\ OpsOf(calls) \in
                IF dryRun THEN {<< >>}
                ELSE IF archive THEN {<< >>, <<"upload">>}
                ELSE {<< >>, <<"delete">>, <<"delete", "upload">>}
            /\ Len(calls) = 2 <=> (calls # << >> /\ calls[1].op = "delete" /\ calls[1].ok)
            /\ cur.name \notin DOMAIN files => ~archive)
    /\ [][Acts /\ pc = "writesum" /\ cur.ctx = "write" /\ cur.old # << >> =>
            LET checksum == checksumFile(cur.name)
            IN  IF checksum.err \/ checksum.sum = cur.old[1]
                THEN pc' = "idle" /\ files' = files /\ calls' = calls
                ELSE /\ calls' = calls
                     /\ pc' = IF dryRun THEN "createsum"
                              ELSE IF archive THEN "upload" ELSE "delete"
                     /\ IF dryRun /\ ~archive THEN cur.name \notin DOMAIN files'
                        ELSE files' = Put(files, cur.name, checksum.sum)]_vars
C3_Witness ==
    /\ Handled("Write") /\ cur.old # << >> /\ ~dryRun /\ archive
    /\ OpsOf(calls) = <<"upload">>
    /\ AllOk
    /\ cur.name \in DOMAIN files
    /\ files[cur.name] # cur.old[1]

\* The uploads that the range of uploadNonExisting owes: one for every file
\* of sf.files whose staging path renterFiles lacks.
Missing == {p \in DOMAIN files : StagingPathOf(p) \notin DOMAIN cur.listing}
\* NewSiafolder found the renter empty: all it holds was uploaded since.
FoundEmpty == DOMAIN remote = {calls[i].path : i \in {j \in DOMAIN calls : calls[j].op = "upload"}}

\* C4 as stated: when the range of uploadNonExisting is through, every file
\* whose staging path the listing lacked got exactly one upload to it; when
\* NewSiafolder has returned its SiaFolder every file on disk has an entry,
\* and on a renter found empty there was one upload per file.
C4_Orig ==
    /\ pc = "list2" => \A p \in Missing : Cardinality(UploadsTo(calls, StagingPathOf(p))) = 1
    /\ phase = "running" =>
        /\ \A p \in OnDisk : p \in DOMAIN files
        /\ FoundEmpty => Len(Mutations(calls)) = Cardinality(OnDisk)

\* C4 amended: the same unless dry-run is set; in a dry run NewSiafolder
\* fills the index and issues no upload at all.  (The tree does not change
\* while NewSiafolder runs.)
C4_StartupUploads ==
    /\ pc = "list2" =>
        /\ \A p \in DOMAIN files :
            Cardinality(UploadsTo(calls, StagingPathOf(p))) =
                IF p \in Missing /\ ~dryRun THEN 1 ELSE 0
        /\ Len(Mutations(calls)) = IF dryRun THEN 0 ELSE Cardinality(Missing)
    /\ phase = "running" =>
        /\ \A p \in OnDisk : p \in DOMAIN files
        /\ calls[Len(calls)].op = "list"
        /\ FoundEmpty =>
            Len(Mutations(calls)) = IF dryRun THEN 0 ELSE Cardinality(OnDisk)
C4_Witness ==
    /\ phase = "running" /\ ~dryRun
    /\ OnDisk = {FileA, FileB}
    /\ OpsOf(calls) = <<"list", "upload", "upload", "list">>
    /\ DOMAIN remote = {StagingPathOf(FileA), StagingPathOf(FileB)}

\* C5: when the program is started a second time, on the same tree and on
\* the renter as the first NewSiafolder left it, its NewSiafolder issues no
\* upload and no delete.
C5_Idempotent ==
    run > 1 => \A i \in DOMAIN calls : calls[i].op \notin {"upload", "delete"}
C5_Witness ==
    /\ run = 2 /\ phase = "running" /\ ~dryRun
    /\ OnDisk = {FileA, FileB}
    /\ OpsOf(calls) = <<"list", "list">>
    /\ DOMAIN remote = {StagingPathOf(FileA), StagingPathOf(FileB)}

\* The calls of the half of a tick that moveToProductionLoop is in or has
\* just left: its fetch and the renames after it.
LastFetch ==
    LET fetches == {i \in DOMAIN pcalls : pcalls[i].op = "getdir"}
    IN  CHOOSE i \in fetches : \A j \in fetches : j <= i
HalfCalls == IF pcalls = << >> THEN << >> ELSE SubSeq(pcalls, LastFetch, Len(pcalls))
RenamedDirs ==
    {HalfCalls[i].path : i \in {j \in DOMAIN HalfCalls : HalfCalls[j].op = "rename"}}
\* The range over the Directories of the last fetch is through.
HalfDone == plist # << >> /\ promoPC \in {"tv", "wait", "done"}

\* C6: the range moves only entries other than the first whose
\* AggregateMinRedundancy is above 1; when it is through, a rename was
\* issued for a sub directory of the fetched listing exactly when its
\* AggregateMinRedundancy is above 1, once, and none for the first entry.
C6_PromotionRule ==
    /\ promoPC \in {"moviesloop", "tvloop"} =>
        pidx \in 2..Len(plist) /\ plist[pidx].AggregateMinRedundancy > 1
    /\ HalfDone =>
        /\ \A i \in 2..Len(plist) :
            plist[i].SiaPath \in RenamedDirs <=> plist[i].AggregateMinRedundancy > 1
        /\ plist[1].SiaPath \notin RenamedDirs
        /\ RenamedDirs \subseteq {plist[i].SiaPath : i \in 2..Len(plist)}
        /\ Len(SelectSeq(HalfCalls, LAMBDA x : x.op = "rename")) = Cardinality(RenamedDirs)
C6_Witness ==
    /\ HalfDone
    /\ Len(plist) = 3
    /\ plist[1].AggregateMinRedundancy = 2
    /\ plist[2].AggregateMinRedundancy = 1
    /\ plist[3].AggregateMinRedundancy = 2
    /\ RenamedDirs = {plist[3].SiaPath}

\* C7 as stated: every rename moves staging/<suffix> to production/<suffix>.
C7_Orig ==
    \A i \in DOMAIN pcalls :
        pcalls[i].op = "rename" =>
            /\ HasDirPrefix(pcalls[i].path, <<"fuse", "staging">>)
            /\ \E n \in 2..Len(pcalls[i].path) :
                pcalls[i].to =
                    <<"fuse", "prod">> \o SubSeq(pcalls[i].path, n + 1, Len(pcalls[i].path))

\* C8 as stated: the first fetch of a tick asks for staging/movies and the
\* second one for staging/tv.
C8_Orig ==
    \A i \in DOMAIN pcalls :
        pcalls[i].op = "getdir" =>
            pcalls[i].path = IF \E j \in 1..(i - 1) : pcalls[j].op = "getdir"
                             THEN <<"fuse", "staging", "tv">>
                             ELSE <<"fuse", "staging", "movies">>

\* C9 as stated: in a dry run no upload, delete or rename is issued.
C9_Orig == dryRun => Mutations(calls) = << >> /\ Mutations(pcalls) = << >>

\* C10 as stated: once Close was called, no step issues a remote call.
C10_Orig ==
    [][closed => Len(calls') <= Len(calls) /\ Len(pcalls') <= Len(pcalls)]_vars

\* A handler is at work on the file.
InFlight(p) ==
    cur.name = p /\ pc \in {"stat", "upload", "createsum", "writesum", "delete", "isfile"}

\* C11 as stated, for the SiaFolder that NewSiafolder returned: for every
\* path of sf.files, no upload was attempted for it, or the renter holds an
\* object for it whose size is the recorded checksum, or a handler is at
\* work on it.  (The uploads looked at are those of NewSiafolder or of the
\* event in hand.)
C11_Orig ==
    phase = "running" =>
    \A p \in DOMAIN files :
        \/ UploadsTo(calls, StagingPathOf(p)) = {}
        \/ /\ StagingPathOf(p) \in DOMAIN remote
           /\ FormatInt(remote[StagingPathOf(p)]) = files[p]
        \/ InFlight(p)

\* C12 as stated: every key of sf.files is a path relative to the
\* synchronized root, such as "sub/b.txt".
C12_Orig ==
    \A p \in DOMAIN files : p \in {Rel(RootAbs, f) : f \in LocalFiles}

\* eventWatcher is through with the event of a directory: the step of
\* sf.watcher.Add and sf.dirs.
AddsDir == pc = "watch" /\ pc' = "idle"

\* C13 as stated: when an event for a directory is handled, the directory
\* is in the watch set and in sf.dirs, no call was issued and sf.files is
\* as it was.
C13_Orig ==
    [][AddsDir /\ cur.name # Dot =>
        /\ cur.name \in watched'
        /\ cur.name \in DOMAIN dirs'
        /\ calls' = << >>
        /\ files' = files]_vars

\* C13 amended: an event whose path os.Stat reports as a directory goes to
\* sf.watcher.Add and to no handler; the directory is then registered in
\* sf.dirs, and it is added to the watch set unless the watcher has been
\* closed since the event was received, when the watch set stays empty; no
\* remote call is issued, and sf.files and the renter are as they were.
\* The zero Event, which only the channel of a closed watcher yields, is
\* handled as the directory ".".
C13_DirectoryEvent ==
    /\ [](pc = "watch" => calls = << >>)
    /\ [][Acts /\ pc = "stat" /\ Stat(cur.name).kind = "dir" =>
            /\ pc' = "watch"
            /\ calls' = << >>
            /\ <<files, remote, dirs, watched>>' = <<files, remote, dirs, watched>>]_vars
    /\ [][AddsDir =>
            /\ cur.name \in DOMAIN dirs'
            /\ watched' = IF watcherClosed THEN {} ELSE watched \cup {cur.name}
            /\ cur.name = Dot => watcherClosed
            /\ calls' = << >>
            /\ files' = files
            /\ remote' = remote]_vars
C13_Witness ==
    /\ pc = "idle" /\ cur.name = DirSub /\ "Create" \in cur.evop
    /\ fs[DirSub].kind = "dir"
    /\ ~watcherClosed
    /\ DirSub \in watched /\ DirSub \in DOMAIN dirs
    /\ calls = << >>

\* C14: the two loops run only once NewSiafolder has returned its SiaFolder;
\* a failed call ends NewSiafolder at once with the error; NewSiafolder
\* returns its SiaFolder, and starts the loops, only when the walk is
\* through and both listings are made, with no call failed; after an error
\* neither loop is ever started.
C14_FailFast ==
    /\ [](phase # "running" => promoPC = "off" /\ pc \notin {"idle", "done"})
    /\ [](phase = "new" => AllOk)
    /\ [][phase = "new" /\ phase' = "running" =>
            /\ cur.walk = << >>
            /\ Len(calls') >= 2
            /\ calls'[1].op = "list" /\ calls'[Len(calls')].op = "list"
            /\ \A i \in DOMAIN calls' : calls'[i].ok
            /\ pc' = "idle" /\ promoPC' = "wait"]_vars
    /\ [][phase = "failed" => UNCHANGED <<phase, pc, promoPC>>]_vars
C14_Witness ==
    /\ phase = "failed"
    /\ OpsOf(calls) = <<"list", "upload">>
    /\ calls[1].ok /\ ~calls[2].ok
    /\ pc = "failed" /\ promoPC = "off"

\* production/<path relative to the synchronized root>
ProdPathOf(file) == <<"fuse", "prod">> \o SubSeq(file, Len(RootAbs) + 1, Len(file))

\* C15 as stated: startup without dry-run re-uploads every file on disk
\* whose staging object has another size than the file, so that when
\* NewSiafolder has returned, every staging object of a file on disk has the
\* size of the file.
C15_Orig ==
    phase = "running" /\ ~dryRun =>
        \A p \in OnDisk :
            StagingPathOf(p) \in DOMAIN remote =>
                remote[StagingPathOf(p)] = Len(fs[p].data)

\* C16 as stated: the range of uploadNonExisting uploads no file that the
\* listing holds under production and not under staging.
C16_Orig ==
    pc = "list2" =>
        \A p \in DOMAIN files :
            ProdPathOf(p) \in DOMAIN cur.listing /\ StagingPathOf(p) \notin DOMAIN cur.listing
                => UploadsTo(calls, StagingPathOf(p)) = {}

\* C17 as stated: when the first upload of a create event fails, the next
\* call asks the renter for the file at the path of that upload, the
\* file's staging path.
C17_Orig ==
    /\ "Create" \in cur.evop /\ cur.name \in LocalFiles
    /\ Len(calls) >= 2 /\ calls[1].op = "upload" /\ ~calls[1].ok
    => /\ calls[2].op = "fileget"
       /\ calls[2].path = calls[1].path
       /\ calls[2].path = StagingPathOf(cur.name)

\* C18: in the program as built, where archive is the constant true, no
\* step taken once NewSiafolder has returned drops a path from sf.files,
\* whichever calls fail, and handleRemove is never entered.
C18_KeepsTrack ==
    /\ [](archive /\ pc # "delete")
    /\ [][phase = "running" => DOMAIN files \subseteq DOMAIN files']_vars
\* The upload of a write event for an indexed file failed, and the file
\* is still indexed.
C18_Witness ==
    /\ Handled("Write") /\ cur.old # << >>
    /\ fs[cur.name].kind = "file"
    /\ OpsOf(calls) = <<"upload">> /\ ~calls[1].ok
    /\ cur.name \in DOMAIN files

\* moveToProductionLoop issues a call in the step.
PromoCalls == Len(pcalls') = Len(pcalls) + 1
NextHalf == IF promoPC \in {"movies", "moviesloop"} THEN "tv" ELSE "wait"

\* C19: a rename, failed or not, is followed by the next move of the range
\* or, after the last one, by the other half of the tick or the wait for the
\* next tick; so when a range is through, every sub directory of the listing
\* above the threshold got its rename call.  A failed fetch sends the loop to
\* wait for the next tick, and the loop returns after Close only.
C19_FaultIsolation ==
    /\ [](HalfDone =>
            \A i \in 2..Len(plist) :
                plist[i].AggregateMinRedundancy > 1 => plist[i].SiaPath \in RenamedDirs)
    /\ [](promoPC = "done" => closed)
    /\ [][PromoCalls =>
            LET call == pcalls'[Len(pcalls')]
                i == nextMove(plist', IF call.op = "getdir" THEN 1 ELSE pidx + 1)
            IN  IF call.op = "getdir" /\ ~call.ok THEN promoPC' = "wait"
                ELSE /\ pidx' = i
                     /\ i # 0 => promoPC' \in {"moviesloop", "tvloop"}
                     /\ i = 0 => promoPC' = NextHalf]_vars
C19_Witness ==
    /\ promoPC = "tv"
    /\ Len(plist) = 3
    /\ OpsOf(pcalls) = <<"getdir", "rename", "rename">>
    /\ pcalls[1].ok /\ ~pcalls[2].ok /\ pcalls[3].ok

\* C20: a loop has returned only if Close was called, and once Close is
\* called both loops return in the end.
C20_Termination ==
    /\ [](pc = "done" => closed)
    /\ [](promoPC = "done" => closed)
    /\ closed ~> (pc = "done" /\ promoPC = "done")
C20_Witness ==
    /\ closed /\ pc = "done" /\ promoPC = "done"
    /\ DOMAIN files # {}

\* C21: while NewSiafolder runs neither loop does, and NewSiafolder is
\* through with its walk and its ranges once it has returned; sf.files and
\* sf.dirs change only in steps of NewSiafolder and of eventWatcher, which
\* handles one event at a time, and in no step of moveToProductionLoop.
C21_SingleWriter ==
    /\ [](phase = "new" => promoPC = "off" /\ cur.evop = {} /\ pc \notin {"idle", "done"})
    /\ [](phase = "running" =>
            cur.walk = << >> /\ cur.todo = << >> /\ cur.ctx \notin {"nonexisting", "changed"})
    /\ [][files' # files \/ dirs' # dirs =>
            /\ Acts
            /\ UNCHANGED <<plist, pidx, pcalls>>
            /\ promoPC' = promoPC \/ phase = "new"]_vars
C21_Witness ==
    /\ phase = "running" /\ pc = "createsum"
    /\ calls # << >> /\ calls[1].op = "upload" /\ calls[1].ok
    /\ promoPC = "moviesloop"
    /\ \E i \in DOMAIN pcalls : pcalls[i].op = "rename" /\ pcalls[i].ok
    /\ DOMAIN files # {}

\* C22: in archive mode no handler reaches handleRemove's delete and no
\* delete is issued, also not in the retry of a create whose first upload
\* failed.
C22_ArchiveNoDelete ==
    archive =>
        /\ pc # "delete"
        /\ \A i \in DOMAIN calls : calls[i].op # "delete"
        /\ \A i \in DOMAIN pcalls : pcalls[i].op # "delete"
C22_Witness ==
    /\ archive /\ Handled("Create")
    /\ OpsOf(calls) = <<"upload", "fileget", "upload">>
    /\ ~calls[1].ok /\ ~calls[2].ok /\ calls[3].ok

\* C23: handleRemove in handleFileWrite: unless dry-run is set it issues one
\* delete of the file's staging path; when the delete succeeded it drops the
\* entry and handleFileWrite goes on to the upload; when it failed sf.files
\* and the renter are as they were and the error ends handleFileWrite.  In a
\* dry run it issues no call and drops the entry.
C23_HandleRemove ==
    /\ [][Acts /\ pc = "delete" /\ cur.ctx = "write" =>
            LET call == calls'[Len(calls')]
            IN  /\ calls' = Append(calls, call)
                /\ call.op = "delete"
                /\ call.path = StagingPathOf(cur.name)
                /\ call.ok =>
                    /\ files' = Del(files, cur.name)
                    /\ remote' = Del(remote, StagingPathOf(cur.name))
                    /\ pc' = "upload"
                /\ ~call.ok =>
                    files' = files /\ remote' = remote /\ pc' = "idle"]_vars
    /\ [][Acts /\ pc = "writesum" /\ ~archive /\ pc' # "idle" =>
            IF dryRun
            THEN calls' = calls /\ files' = Del(files, cur.name) /\ pc' = "createsum"
            ELSE pc' = "delete"]_vars
C23_Witness ==
    /\ ~archive /\ ~dryRun /\ Handled("Write")
    /\ OpsOf(calls) = <<"delete", "upload">>
    /\ calls[1].ok /\ ~calls[2].ok
    /\ cur.name \notin DOMAIN files
====
